---- MODULE Spec2Model ----
(***************************************************************************)
(* Model of the 3D periodic table scene: PeriodicTableScene                *)
(* (src/components/PeriodicTable/PeriodicTable.tsx) and ElementBlock with  *)
(* its interpolateColor helper (ElementBlock.tsx, src/unnamed/part_000).   *)
(*                                                                         *)
(* Encodings.  A value of type `T | null` is a sequence of length at most  *)
(* one: << >> is null and <<v>> is the value v.  A JavaScript number that  *)
(* may be non-finite is a record [k, n, d]: k = "fin" is the rational n/d  *)
(* (d > 0), k = "inf" is Infinity (n = 1) or -Infinity (n = -1), k = "nan" *)
(* is NaN.  A CSS colour string is a tuple <<format, r, g, b>> of 8-bit    *)
(* channels; a THREE.Color is a triple of linear-sRGB channels in fixed    *)
(* point, 1.0 being 1000000.                                               *)
(***************************************************************************)
EXTENDS Integers, Sequences, FiniteSets, TLC

VARIABLES
    elements,           \* useState<ElementData[]>([])
    hoveredElementId,   \* useState<number | null>(null)
    selectedElementId,  \* useState<number | null>(null)
    colorMode,          \* useState<ColorMode>('category')
    loading,            \* useState(true)
    error,              \* useState<string | null>(null)
    isMobile,           \* useState(false), set by handleResize on mount
    showDropdown,       \* useState(false)
    hasMouse,           \* ElementBlock: useState(false), set on mount
    fetchState          \* the promise of the one fetch: pending / fulfilled / rejected

vars == <<elements, hoveredElementId, selectedElementId, colorMode, loading,
          error, isMobile, showDropdown, hasMouse, fetchState>>

(* ------------------------------ bounds --------------------------------- *)

\* largest number of element records in a loaded document
MaxElements == 3

\* property values of the generated records lie in -MaxVal..MaxVal
MaxVal == 1

(* ----------------------------- constants ------------------------------- *)

null == << >>

\* handleResize: window.innerWidth < 768
MobileBreakpoint == 768

GeneralModes == {"category", "phase", "block", "cpk"}

NumericModes ==
    {"atomic_mass", "density", "electronegativity", "ionization", "electron_affinity"}

ColorModes == GeneralModes \cup NumericModes

\* the colour strings of the source, as <<format, r, g, b>>
Hex222244 == <<"hex", 34, 34, 68>>
Hex111122 == <<"hex", 17, 17, 34>>
HexE94560 == <<"hex", 233, 69, 96>>
Hex00D2FF == <<"hex", 0, 210, 255>>
HexF9D423 == <<"hex", 249, 212, 35>>
HexA8FF78 == <<"hex", 168, 255, 120>>
HexFF0080 == <<"hex", 255, 0, 128>>

\* the "rgb(NaN,NaN,NaN)" string getStyle produces from NaN channels
StyleNaN == <<"rgb(NaN,NaN,NaN)">>

(* ------------------------- JavaScript numbers -------------------------- *)

Fin(n) == [k |-> "fin", n |-> n, d |-> 1]
Infinity == [k |-> "inf", n |-> 1, d |-> 1]
NegInfinity == [k |-> "inf", n |-> -1, d |-> 1]
NaN == [k |-> "nan", n |-> 0, d |-> 1]

Sign(n) == IF n > 0 THEN 1 ELSE IF n < 0 THEN -1 ELSE 0

\* a < b for two numbers that are not NaN
JsLess(a, b) ==
    IF a.k = "inf" THEN a.n = -1 /\ ~(b.k = "inf" /\ b.n = -1)
    ELSE IF b.k = "inf" THEN b.n = 1
    ELSE a.n * b.d < b.n * a.d

\* a - b
JsSub(a, b) ==
    IF a.k = "nan" \/ b.k = "nan" THEN NaN
    ELSE IF a.k = "inf" /\ b.k = "inf" THEN (IF a.n = b.n THEN NaN ELSE a)
    ELSE IF a.k = "inf" THEN a
    ELSE IF b.k = "inf" THEN [b EXCEPT !.n = 0 - b.n]
    ELSE [k |-> "fin", n |-> a.n * b.d - b.n * a.d, d |-> a.d * b.d]

\* a / b (the sign of a zero is not tracked: every zero divisor here is x - x = +0)
JsDiv(a, b) ==
    IF a.k = "nan" \/ b.k = "nan" THEN NaN
    ELSE IF a.k = "inf" /\ b.k = "inf" THEN NaN
    ELSE IF a.k = "inf" THEN (IF b.n < 0 THEN [a EXCEPT !.n = 0 - a.n] ELSE a)
    ELSE IF b.k = "inf" THEN Fin(0)
    ELSE IF b.n = 0 THEN
        (IF a.n = 0 THEN NaN ELSE IF a.n > 0 THEN Infinity ELSE NegInfinity)
    ELSE [k |-> "fin", n |-> a.n * b.d * Sign(b.n), d |-> a.d * b.n * Sign(b.n)]

\* Math.min(a, b) and Math.max(a, b): NaN if either argument is NaN
MathMin2(a, b) ==
    IF a.k = "nan" \/ b.k = "nan" THEN NaN ELSE IF JsLess(b, a) THEN b ELSE a

MathMax2(a, b) ==
    IF a.k = "nan" \/ b.k = "nan" THEN NaN ELSE IF JsLess(a, b) THEN b ELSE a

\* Math.min(...xs) and Math.max(...xs) of a set of integers: the empty
\* argument list gives Infinity and -Infinity
MathMin(S) ==
    IF S = {} THEN Infinity ELSE Fin(CHOOSE x \in S : \A y \in S : x <= y)

MathMax(S) ==
    IF S = {} THEN NegInfinity ELSE Fin(CHOOSE x \in S : \A y \in S : x >= y)

\* a missing value read as -1 instead of 0
OrZero_MissingAsMinusOne(v) == IF v = null THEN 0 - 1 ELSE v[1]

\* v || 0 for v : number | null (null and 0 are both falsy)
OrZero(v) == IF v = null THEN 0 ELSE v[1]

(* ----------------------------- THREE.Color ----------------------------- *)

\* THREE's SRGBToLinear on the 256 channel bytes, in fixed point
SRGBToLinearTable ==
    <<0, 304, 607, 911, 1214, 1518, 1821, 2125,
      2428, 2732, 3035, 3347, 3677, 4025, 4391, 4777,
      5182, 5605, 6049, 6512, 6995, 7499, 8023, 8568,
      9134, 9721, 10330, 10960, 11612, 12286, 12983, 13702,
      14444, 15209, 15996, 16807, 17642, 18500, 19382, 20289,
      21219, 22174, 23153, 24158, 25187, 26241, 27321, 28426,
      29557, 30713, 31896, 33105, 34340, 35601, 36889, 38204,
      39546, 40915, 42311, 43735, 45186, 46665, 48172, 49707,
      51269, 52861, 54480, 56128, 57805, 59511, 61246, 63010,
      64803, 66626, 68478, 70360, 72272, 74214, 76185, 78187,
      80220, 82283, 84376, 86500, 88656, 90842, 93059, 95307,
      97587, 99899, 102242, 104616, 107023, 109462, 111932, 114435,
      116971, 119538, 122139, 124772, 127438, 130136, 132868, 135633,
      138432, 141263, 144128, 147027, 149960, 152926, 155926, 158961,
      162029, 165132, 168269, 171441, 174647, 177888, 181164, 184475,
      187821, 191202, 194618, 198069, 201556, 205079, 208637, 212231,
      215861, 219526, 223228, 226966, 230740, 234551, 238398, 242281,
      246201, 250158, 254152, 258183, 262251, 266356, 270498, 274677,
      278894, 283149, 287441, 291771, 296138, 300544, 304987, 309469,
      313989, 318547, 323143, 327778, 332452, 337164, 341914, 346704,
      351533, 356400, 361307, 366253, 371238, 376262, 381326, 386429,
      391572, 396755, 401978, 407240, 412543, 417885, 423268, 428690,
      434154, 439657, 445201, 450786, 456411, 462077, 467784, 473531,
      479320, 485150, 491021, 496933, 502886, 508881, 514918, 520996,
      527115, 533276, 539479, 545724, 552011, 558340, 564712, 571125,
      577580, 584078, 590619, 597202, 603827, 610496, 617207, 623960,
      630757, 637597, 644480, 651406, 658375, 665387, 672443, 679542,
      686685, 693872, 701102, 708376, 715694, 723055, 730461, 737910,
      745404, 752942, 760525, 768151, 775822, 783538, 791298, 799103,
      806952, 814847, 822786, 830770, 838799, 846873, 854993, 863157,
      871367, 879622, 887923, 896269, 904661, 913099, 921582, 930111,
      938686, 947307, 955973, 964686, 973445, 982251, 991102, 1000000>>

\* the smallest scaled linear value that getStyle rounds to byte b, for b = 1..255
LinearToSRGBThreshold ==
    <<152, 456, 759, 1063, 1366, 1670, 1973, 2277,
      2580, 2884, 3189, 3509, 3848, 4206, 4582, 4977,
      5391, 5825, 6278, 6751, 7245, 7758, 8293, 8848,
      9425, 10023, 10642, 11283, 11946, 12632, 13339, 14070,
      14823, 15599, 16398, 17221, 18067, 18938, 19832, 20750,
      21693, 22660, 23651, 24668, 25710, 26777, 27869, 28987,
      30131, 31300, 32496, 33718, 34966, 36241, 37542, 38870,
      40226, 41608, 43018, 44455, 45920, 47413, 48934, 50483,
      52060, 53665, 55299, 56961, 58653, 60373, 62122, 63901,
      65709, 67546, 69413, 71310, 73236, 75193, 77180, 79197,
      81245, 83323, 85432, 87571, 89742, 91943, 94176, 96440,
      98736, 101063, 103422, 105812, 108235, 110690, 113176, 115695,
      118247, 120831, 123448, 126097, 128779, 131494, 134243, 137024,
      139839, 142688, 145570, 148485, 151435, 154418, 157435, 160487,
      163572, 166692, 169847, 173036, 176259, 179518, 182811, 186139,
      189502, 192901, 196335, 199804, 203308, 206849, 210425, 214036,
      217684, 221368, 225088, 228844, 232636, 236465, 240330, 244232,
      248170, 252146, 256158, 260207, 264293, 268417, 272578, 276776,
      281012, 285285, 289596, 293944, 298331, 302756, 307218, 311719,
      316258, 320835, 325450, 330105, 334797, 339529, 344299, 349108,
      353956, 358843, 363769, 368735, 373740, 378784, 383867, 388991,
      394154, 399356, 404599, 409881, 415203, 420566, 425969, 431412,
      436895, 442419, 447983, 453588, 459234, 464920, 470647, 476416,
      482225, 488075, 493967, 499900, 505874, 511889, 517946, 524045,
      530186, 536368, 542592, 548858, 555166, 561516, 567908, 574343,
      580820, 587339, 593901, 600505, 607152, 613841, 620574, 627349,
      634168, 641029, 647933, 654881, 661872, 668906, 675984, 683105,
      690269, 697478, 704730, 712026, 719366, 726749, 734177, 741649,
      749165, 756725, 764329, 771978, 779672, 787410, 795192, 803020,
      810892, 818808, 826770, 834777, 842829, 850926, 859068, 867255,
      875488, 883766, 892089, 900459, 908873, 917334, 925840, 934392,
      942990, 951634, 960324, 969060, 977842, 986671, 995546>>

RECURSIVE ByteSearch(_, _, _)
\* the number of thresholds among LinearToSRGBThreshold[1..hi] that are <= x,
\* given that the first lo of them are
ByteSearch(x, lo, hi) ==
    IF lo = hi THEN lo
    ELSE LET mid == (lo + hi + 1) \div 2
         IN  IF LinearToSRGBThreshold[mid] <= x
             THEN ByteSearch(x, mid, hi)
             ELSE ByteSearch(x, lo, mid - 1)

\* Math.round(LinearToSRGB(x) * 255) for a linear channel x in [0, 1]
LinearToSRGBByte(x) == ByteSearch(x, 0, 255)

\* new THREE.Color(style): the sRGB bytes of the string in the linear working space
Color(style) == [c \in 1..3 |-> SRGBToLinearTable[style[c + 1] + 1]]

\* Color.add
ColorAdd(c1, c2) == [c \in 1..3 |-> c1[c] + c2[c]]

\* Color.lerp with the two colours exchanged
ColorLerp_Reversed(c1, c2, t) ==
    [c \in 1..3 |-> c2[c] + ((c1[c] - c2[c]) * t.n) \div t.d]

\* Color.lerp(color, alpha) for a finite alpha = t.n / t.d
ColorLerp(c1, c2, t) == [c \in 1..3 |-> c1[c] + ((c2[c] - c1[c]) * t.n) \div t.d]

\* Color.getStyle(): back to sRGB, each channel rounded to a byte
getStyle(c) ==
    <<"rgb", LinearToSRGBByte(c[1]), LinearToSRGBByte(c[2]), LinearToSRGBByte(c[3])>>

\* the colour a CSS colour string denotes
Channels(style) == <<style[2], style[3], style[4]>>

(* --------------------------- interpolateColor -------------------------- *)

\* the factor without the clamp to [0, 1]
InterpolationFactor_Unclamped(val, min, max) ==
    JsDiv(JsSub(Fin(val), min), JsSub(max, min))

\* the factor normalised by max instead of max - min
InterpolationFactor_DividesByMax(val, min, max) ==
    MathMax2(Fin(0), MathMin2(Fin(1), JsDiv(JsSub(Fin(val), min), max)))

\* const t = Math.max(0, Math.min(1, (val - min) / (max - min)))
InterpolationFactor(val, min, max) ==
    MathMax2(Fin(0), MathMin2(Fin(1), JsDiv(JsSub(Fin(val), min), JsSub(max, min))))

interpolateColor(val, min, max, colorLow, colorHigh) ==
    LET t == InterpolationFactor(val, min, max)
        c1 == Color(colorLow)
        c2 == Color(colorHigh)
        mixedLow == ColorAdd(c1, Color(Hex111122))
    IN  IF t.k = "nan" THEN StyleNaN   \* every channel becomes NaN
        ELSE getStyle(ColorLerp(mixedLow, c2, t))

(* ------------------------------- records ------------------------------- *)

Vals == (0 - MaxVal)..MaxVal

Optional(S) == {null} \cup {<<v>> : v \in S}

\* the non-negative value generated from the level v, missing when v is
Magnitude(v) ==
    IF v = null THEN null ELSE <<(IF v[1] < 0 THEN 0 - v[1] ELSE v[1])>>

\* the signed value generated from the level v, missing also at level 0
Signed(v) == IF v = null \/ v[1] = 0 THEN null ELSE v

\* ElementData with the given atomic number, generated from one level v
\* or from none: the mass grows with the number; density,
\* electronegativity and first ionization energy are |v|; the electron
\* affinity is v itself, and is missing at level 0
ElementPool(number) ==
    { [number |-> number,
       atomic_mass |-> number,
       density |-> Magnitude(v),
       electronegativity_pauling |-> Magnitude(v),
       ionization_energies |-> Magnitude(v),
       electron_affinity |-> Signed(v)] : v \in Optional(Vals) }

\* the element arrays a document can hold: atomic numbers 1..n in order
RECURSIVE ElementArrays(_)
ElementArrays(n) ==
    IF n = 0 THEN {<< >>}
    ELSE {Append(s, e) : s \in ElementArrays(n - 1), e \in ElementPool(n)}

Documents == UNION {ElementArrays(n) : n \in 0..MaxElements}

\* a fixed table: element i has mass i, odd elements lack density and
\* electronegativity, every third element lacks ionization data
TableElement(i) ==
    [number |-> i,
     atomic_mass |-> i,
     density |-> IF i % 2 = 1 THEN null ELSE <<i>>,
     electronegativity_pauling |-> IF i % 2 = 1 THEN null ELSE <<i>>,
     ionization_energies |-> IF i % 3 = 0 THEN null ELSE <<i, i + 1>>,
     electron_affinity |-> IF i % 3 = 0 THEN null ELSE <<i - 2>>]

Tables == {[i \in 1..n |-> TableElement(i)] : n \in 0..MaxElements}

Numbers == {elements[i].number : i \in 1..Len(elements)}

(* ------------------------------- ranges -------------------------------- *)

\* the map without the filter: Math.min and Math.max read null as 0
Present_NullAsZero(field) ==
    {OrZero(elements[i][field]) : i \in 1..Len(elements)}

\* elements.filter(e => e[field] !== null).map(e => e[field]!) as a set
Present(field) ==
    {elements[i][field][1] : i \in {j \in 1..Len(elements) : elements[j][field] # null}}

\* elements.filter(e => e.ionization_energies.length > 0)
\*         .map(e => e.ionization_energies[0]) as a set
FirstIonization ==
    {elements[i].ionization_energies[1] :
        i \in {j \in 1..Len(elements) : Len(elements[j].ionization_energies) > 0}}

\* the memo without its electron_affinity entry
ranges_WithoutElectronAffinity ==
    IF Len(elements) = 0 THEN [p \in {} |-> <<NaN, NaN>>]
    ELSE [p \in NumericModes \ {"electron_affinity"} |->
            CASE p = "atomic_mass" ->
                   LET S == {elements[i].atomic_mass : i \in 1..Len(elements)}
                   IN  <<MathMin(S), MathMax(S)>>
              [] p = "density" ->
                   <<MathMin(Present("density")), MathMax(Present("density"))>>
              [] p = "electronegativity" ->
                   <<MathMin(Present("electronegativity_pauling")),
                     MathMax(Present("electronegativity_pauling"))>>
              [] p = "ionization" ->
                   <<MathMin(FirstIonization), MathMax(FirstIonization)>>]

\* useMemo(..., [elements]): {} while nothing is loaded, else one
\* [min, max] pair per numeric property
ranges ==
    IF Len(elements) = 0 THEN [p \in {} |-> <<NaN, NaN>>]
    ELSE [p \in NumericModes |->
            CASE p = "atomic_mass" ->
                   LET S == {elements[i].atomic_mass : i \in 1..Len(elements)}
                   IN  <<MathMin(S), MathMax(S)>>
              [] p = "density" ->
                   <<MathMin(Present("density")), MathMax(Present("density"))>>
              [] p = "electronegativity" ->
                   <<MathMin(Present("electronegativity_pauling")),
                     MathMax(Present("electronegativity_pauling"))>>
              [] p = "ionization" ->
                   <<MathMin(FirstIonization), MathMax(FirstIonization)>>
              [] p = "electron_affinity" ->
                   <<MathMin(Present("electron_affinity")),
                     MathMax(Present("electron_affinity"))>>]

(* ----------------------------- ElementBlock ---------------------------- *)

isSelected(element) == selectedElementId = <<element.number>>
isHovered(element) == hoveredElementId = <<element.number>>
isEffectivelyActive(element) == isSelected(element) \/ isHovered(element)

\* the value a numeric mode passes to interpolateColor for an element
PropertyValue(element, mode) ==
    CASE mode = "atomic_mass" -> element.atomic_mass
      [] mode = "density" -> OrZero(element.density)
      [] mode = "electronegativity" -> OrZero(element.electronegativity_pauling)
      [] mode = "ionization" ->
           IF Len(element.ionization_energies) = 0 THEN 0
           ELSE OrZero(<<element.ionization_energies[1]>>)
      [] mode = "electron_affinity" -> OrZero(element.electron_affinity)

\* the high colour each numeric mode passes; the low colour is always #222244
ColorHigh(mode) ==
    CASE mode = "atomic_mass" -> HexE94560
      [] mode = "density" -> Hex00D2FF
      [] mode = "electronegativity" -> HexF9D423
      [] mode = "ionization" -> HexA8FF78
      [] mode = "electron_affinity" -> HexFF0080

\* the numeric cases of the color memo, for a range [min, max]
numericColor(element, mode, range) ==
    interpolateColor(PropertyValue(element, mode), range[1], range[2],
                     Hex222244, ColorHigh(mode))

(* -------------------------- PeriodicTableScene ------------------------- *)

\* the hovered id alone, without the || selectedElementId
activeElementId_HoverOnly == hoveredElementId

\* a || b for number | null with non-zero numbers
activeElementId ==
    IF hoveredElementId # null /\ hoveredElementId[1] # 0
    THEN hoveredElementId ELSE selectedElementId

\* elements.find(e => e.number === activeElementId): <<e>> or null (undefined)
displayElement ==
    LET hits == {i \in 1..Len(elements) : <<elements[i].number>> = activeElementId}
    IN  IF hits = {} THEN null
        ELSE <<elements[CHOOSE i \in hits : \A j \in hits : i <= j]>>

\* the table without its ionization entry
propertyConfigs_WithoutIonization ==
    {"atomic_mass", "density", "electronegativity", "electron_affinity"}

\* the keys of the propertyConfigs table
propertyConfigs ==
    {"atomic_mass", "density", "electronegativity", "ionization", "electron_affinity"}

\* propertyConfigs[colorMode], as whether it is defined
activeProperty == colorMode \in propertyConfigs

\* what the component returns: the loading screen, or the scene with its overlays
RenderedView ==
    IF loading THEN {"loading-screen"}
    ELSE {"canvas", "overlay-title", "reset-button", "filter-dropdown",
          "social-links", "instructions"}
         \cup (IF activeProperty THEN {"property-legend"} ELSE {})
         \cup (IF displayElement # null THEN {"element-details"} ELSE {})

\* the ElementBlocks in the canvas
RenderedBlocks == IF loading THEN {} ELSE {elements[i] : i \in 1..Len(elements)}

(* -------------------------------- state -------------------------------- *)

ErrorMessages ==
    {"Failed to fetch", "HTTP error! status: 404",
     "Unexpected token < in JSON at position 0"}

\* the useState initial values, with the fetch of the mount effect in flight
Init ==
    /\ elements = << >>
    /\ hoveredElementId = null
    /\ selectedElementId = null
    /\ colorMode = "category"
    /\ loading = TRUE
    /\ error = null
    /\ isMobile = FALSE
    /\ showDropdown = FALSE
    /\ hasMouse = FALSE
    /\ fetchState = "pending"

(* ------------------------------- actions ------------------------------- *)

\* handleResize, called on mount and on every window 'resize':
\* setIsMobile(window.innerWidth < 768)
handleResize(innerWidth) ==
    /\ isMobile' = (innerWidth < MobileBreakpoint)
    /\ UNCHANGED <<elements, hoveredElementId, selectedElementId, colorMode,
                   loading, error, showDropdown, hasMouse, fetchState>>

\* the fetch resolves with an OK response whose body parses: the second
\* .then stores the elements; the blocks mount and each sets hasMouse
\* from matchMedia("(pointer: fine)")
FetchFulfilled(data, pointerFine) ==
    /\ fetchState = "pending"
    /\ fetchState' = "fulfilled"
    /\ elements' = data
    /\ loading' = FALSE
    /\ hasMouse' = (IF Len(data) > 0 THEN pointerFine ELSE hasMouse)
    /\ UNCHANGED <<hoveredElementId, selectedElementId, colorMode, error,
                   isMobile, showDropdown>>

\* the fetch rejects, the status is not OK, or the body is malformed: the
\* .catch stores err.message
FetchRejected(message) ==
    /\ fetchState = "pending"
    /\ fetchState' = "rejected"
    /\ error' = <<message>>
    /\ loading' = FALSE
    /\ UNCHANGED <<elements, hoveredElementId, selectedElementId, colorMode,
                   isMobile, showDropdown, hasMouse>>

\* the root div's onClick, reached by every click that bubbles to it
RootOnClick ==
    /\ ~loading
    /\ showDropdown' = FALSE
    /\ UNCHANGED <<elements, hoveredElementId, selectedElementId, colorMode,
                   loading, error, isMobile, hasMouse, fetchState>>

\* onClick that always selects the clicked element, also when it is selected
ElementOnClick_NeverDeselects(i) ==
    /\ ~loading
    /\ i \in 1..Len(elements)
    /\ selectedElementId' = <<elements[i].number>>
    /\ hoveredElementId' = null
    /\ showDropdown' = FALSE
    /\ UNCHANGED <<elements, colorMode, loading, error, isMobile, hasMouse,
                   fetchState>>

\* onClick without setHoveredElementId(null)
ElementOnClick_KeepsHover(i) ==
    /\ ~loading
    /\ i \in 1..Len(elements)
    /\ selectedElementId' =
         (IF selectedElementId = <<elements[i].number>> THEN null
          ELSE <<elements[i].number>>)
    /\ showDropdown' = FALSE
    /\ UNCHANGED <<elements, hoveredElementId, colorMode, loading, error,
                   isMobile, hasMouse, fetchState>>

\* RoundedBox onClick of the block of elements[i]; the DOM click bubbles
\* from the canvas to the root div
ElementOnClick(i) ==
    /\ ~loading
    /\ i \in 1..Len(elements)
    /\ LET element == elements[i]
           newId == IF isSelected(element) THEN null ELSE <<element.number>>
       IN  selectedElementId' = newId
    /\ hoveredElementId' = null
    /\ showDropdown' = FALSE
    /\ UNCHANGED <<elements, colorMode, loading, error, isMobile, hasMouse,
                   fetchState>>

\* onPointerOver without the hasMouse test
ElementOnPointerOver_IgnoresHasMouse(i) ==
    /\ ~loading
    /\ i \in 1..Len(elements)
    /\ IF selectedElementId = null \/ selectedElementId[1] = 0
       THEN hoveredElementId' = <<elements[i].number>>
       ELSE UNCHANGED hoveredElementId
    /\ UNCHANGED <<elements, selectedElementId, colorMode, loading, error,
                   isMobile, showDropdown, hasMouse, fetchState>>

\* onPointerOver without the !selectedElementId test
ElementOnPointerOver_Unlocked(i) ==
    /\ ~loading
    /\ i \in 1..Len(elements)
    /\ IF hasMouse
       THEN hoveredElementId' = <<elements[i].number>>
       ELSE UNCHANGED hoveredElementId
    /\ UNCHANGED <<elements, selectedElementId, colorMode, loading, error,
                   isMobile, showDropdown, hasMouse, fetchState>>

\* RoundedBox onPointerOver: !selectedElementId holds for null and for 0
ElementOnPointerOver(i) ==
    /\ ~loading
    /\ i \in 1..Len(elements)
    /\ IF hasMouse /\ (selectedElementId = null \/ selectedElementId[1] = 0)
       THEN hoveredElementId' = <<elements[i].number>>
       ELSE UNCHANGED hoveredElementId
    /\ UNCHANGED <<elements, selectedElementId, colorMode, loading, error,
                   isMobile, showDropdown, hasMouse, fetchState>>

\* RoundedBox onPointerOut
ElementOnPointerOut(i) ==
    /\ ~loading
    /\ i \in 1..Len(elements)
    /\ IF hasMouse THEN hoveredElementId' = null ELSE UNCHANGED hoveredElementId
    /\ UNCHANGED <<elements, selectedElementId, colorMode, loading, error,
                   isMobile, showDropdown, hasMouse, fetchState>>

\* Canvas onPointerMissed: a click on the canvas that hits no block; the
\* DOM click bubbles to the root div
onPointerMissed ==
    /\ ~loading
    /\ selectedElementId' = null
    /\ hoveredElementId' = null
    /\ showDropdown' = FALSE
    /\ UNCHANGED <<elements, colorMode, loading, error, isMobile, hasMouse,
                   fetchState>>

\* a reset without setColorMode('category')
resetScene_KeepsColorMode ==
    /\ ~loading
    /\ selectedElementId' = null
    /\ hoveredElementId' = null
    /\ showDropdown' = FALSE
    /\ UNCHANGED <<elements, colorMode, loading, error, isMobile, hasMouse,
                   fetchState>>

\* a reset that also drops the loaded elements
resetScene_ClearsElements ==
    /\ ~loading
    /\ elements' = << >>
    /\ selectedElementId' = null
    /\ hoveredElementId' = null
    /\ colorMode' = "category"
    /\ showDropdown' = FALSE
    /\ UNCHANGED <<loading, error, isMobile, hasMouse, fetchState>>

\* a reset that issues the fetch again
resetScene_Refetches ==
    /\ ~loading
    /\ selectedElementId' = null
    /\ hoveredElementId' = null
    /\ colorMode' = "category"
    /\ showDropdown' = FALSE
    /\ fetchState' = "pending"
    /\ error' = null
    /\ loading' = TRUE
    /\ UNCHANGED <<elements, isMobile, hasMouse>>

\* the Reset button: resetScene, then the click bubbles to the root div
resetScene ==
    /\ ~loading
    /\ selectedElementId' = null
    /\ hoveredElementId' = null
    /\ colorMode' = "category"
    /\ showDropdown' = FALSE
    /\ UNCHANGED <<elements, loading, error, isMobile, hasMouse, fetchState>>

\* the dropdown button reachable while the loading screen is shown
ToggleDropdown_WhileLoading ==
    /\ showDropdown' = ~showDropdown
    /\ UNCHANGED <<elements, hoveredElementId, selectedElementId, colorMode,
                   loading, error, isMobile, hasMouse, fetchState>>

\* the dropdown button: setShowDropdown(!showDropdown); propagation is stopped
ToggleDropdown ==
    /\ ~loading
    /\ showDropdown' = ~showDropdown
    /\ UNCHANGED <<elements, hoveredElementId, selectedElementId, colorMode,
                   loading, error, isMobile, hasMouse, fetchState>>

\* a dropdown item: setColorMode(item); setShowDropdown(false)
SelectColorMode(item) ==
    /\ ~loading
    /\ showDropdown
    /\ colorMode' = item
    /\ showDropdown' = FALSE
    /\ UNCHANGED <<elements, hoveredElementId, selectedElementId, loading,
                   error, isMobile, hasMouse, fetchState>>

FetchFails ==
    /\ fetchState = "pending"
    /\ \E message \in ErrorMessages : FetchRejected(message)

\* the response is one of the documents in docs, on a device whose
\* (pointer: fine) media query gives one of the values in pointers
FetchSucceeds(docs, pointers) ==
    /\ fetchState = "pending"
    /\ \E data \in docs, pointerFine \in pointers : FetchFulfilled(data, pointerFine)

ElementEvents ==
    \E i \in 1..MaxElements :
        ElementOnClick(i) \/ ElementOnPointerOver(i) \/ ElementOnPointerOut(i)

Next ==
    \/ \E w \in {MobileBreakpoint - 1, MobileBreakpoint} : handleResize(w)
    \/ FetchSucceeds(Tables, BOOLEAN)
    \/ FetchFails
    \/ RootOnClick
    \/ ElementEvents
    \/ onPointerMissed
    \/ resetScene
    \/ ToggleDropdown
    \/ \E item \in ColorModes : SelectColorMode(item)

Spec == Init /\ [][Next]_vars

\* the promise of the fetch settles: it is fulfilled or rejected
FetchSettles == FetchSucceeds(Tables, BOOLEAN) \/ FetchFails

\* the scene when the fetch promise eventually settles
SpecLive == Init /\ [][Next]_vars /\ WF_vars(FetchSettles)

\* the colour pipeline over every generated document: the scene is loaded
\* on a touch device (the pointer kind does not enter any colour) and the
\* colour mode is changed through the dropdown
NextColor ==
    \/ FetchSucceeds(Documents, {FALSE})
    \/ FetchFails
    \/ ToggleDropdown
    \/ \E item \in ColorModes : SelectColorMode(item)

SpecColor == Init /\ [][NextColor]_vars

(* ------------------------------- claims -------------------------------- *)

\* C1: whenever an element is selected no element is hovered, and a
\* pointer-over on any block while an element is selected leaves
\* hoveredElementId unchanged.
C1_SelectionLocksOutHover ==
    /\ [](selectedElementId # null => hoveredElementId = null)
    /\ [][\A i \in 1..MaxElements :
            (selectedElementId # null /\ ElementOnPointerOver(i))
                => hoveredElementId' = hoveredElementId]_vars

\* a fine-pointer device with an element selected, where a pointer-over
\* on another block would otherwise hover it
C1_Witness ==
    /\ hasMouse
    /\ selectedElementId # null
    /\ hoveredElementId = null
    /\ Numbers \ {selectedElementId[1]} # {}

\* C2 (as claimed): once the fetch has failed the error flag is set and
\* the rendered view contains an error message.
C2_ErrorMessageRendered ==
    fetchState = "rejected" => (error # null /\ "error-message" \in RenderedView)

\* C3: a click or tap on a block that is not the selected one makes that
\* element the selected one, and the details card shows exactly it, with
\* or without a fine pointer.
C3_ClickSelectsAndShows ==
    [][\A i \in 1..MaxElements :
        (ElementOnClick(i) /\ ~isSelected(elements[i]))
            => /\ selectedElementId' = <<elements[i].number>>
               /\ displayElement' = <<elements[i]>>
               /\ "element-details" \in RenderedView']_vars

\* a touch device on which a tap has selected element 2, shown in the card
C3_Witness ==
    /\ ~hasMouse
    /\ Len(elements) >= 2
    /\ selectedElementId = <<2>>
    /\ displayElement = <<elements[2]>>

\* the range of the active numeric mode, when the scene has one
NumericScene == ~loading /\ colorMode \in NumericModes /\ colorMode \in DOMAIN ranges

\* a range of two finite bounds with min < max
ProperRange(r) == r[1].k = "fin" /\ r[2].k = "fin" /\ JsLess(r[1], r[2])

\* the rendered blocks whose value in the active mode is the number v
BlocksAt(v) == {e \in RenderedBlocks : Fin(PropertyValue(e, colorMode)) = v}

\* what interpolateColor returns at t = 0: the low colour plus the tint
TintedLow == getStyle(ColorAdd(Color(Hex222244), Color(Hex111122)))

\* C4 (as claimed): in a numeric mode with min < max, a block whose value
\* is min gets exactly the low colour #222244.
C4_MinGivesColorLow ==
    (NumericScene /\ ProperRange(ranges[colorMode])) =>
        \A e \in BlocksAt(ranges[colorMode][1]) :
            Channels(numericColor(e, colorMode, ranges[colorMode])) = Channels(Hex222244)

\* C4 (amended): in a numeric mode with min < max, a block whose value is
\* min gets the low colour brightened by the tint #111122, which is
\* brighter than #222244 in every channel and is the same for every mode.
C4_MinGivesTintedLow ==
    (NumericScene /\ ProperRange(ranges[colorMode])) =>
        \A e \in BlocksAt(ranges[colorMode][1]) :
            LET style == numericColor(e, colorMode, ranges[colorMode])
            IN  /\ style = TintedLow
                /\ \A c \in 1..3 : Channels(style)[c] > Channels(Hex222244)[c]

\* a numeric mode with min < max and a block at the minimum
C4_Witness ==
    /\ NumericScene
    /\ ProperRange(ranges[colorMode])
    /\ BlocksAt(ranges[colorMode][1]) # {}

\* C5: in a numeric mode with min < max, a block whose value is max gets
\* exactly the high colour of the mode (as an rgb() string).
C5_MaxGivesColorHigh ==
    (NumericScene /\ ProperRange(ranges[colorMode])) =>
        \A e \in BlocksAt(ranges[colorMode][2]) :
            LET style == numericColor(e, colorMode, ranges[colorMode])
            IN  style # StyleNaN /\ Channels(style) = Channels(ColorHigh(colorMode))

\* the electronegativity mode with min < max and a block at the maximum
C5_Witness ==
    /\ NumericScene
    /\ colorMode = "electronegativity"
    /\ ProperRange(ranges[colorMode])
    /\ BlocksAt(ranges[colorMode][2]) # {}

\* the values tried below and above every range
TestVals == (0 - MaxVal - 2)..(MaxVal + MaxElements + 2)

\* C6: for a range with min < max, every val < min gives the colour of
\* val = min and every val > max gives the colour of val = max.
C6_ClampedOutsideRange ==
    (NumericScene /\ ProperRange(ranges[colorMode])) =>
        LET min == ranges[colorMode][1]
            max == ranges[colorMode][2]
            at(val) == interpolateColor(val, min, max, Hex222244, ColorHigh(colorMode))
            atMin == at(min.n)
            atMax == at(max.n)
        IN  \A val \in TestVals :
                /\ val < min.n => at(val) = atMin
                /\ val > max.n => at(val) = atMax

\* a range with min < max, tried values on both sides of it, and the two
\* ends coloured differently
C6_Witness ==
    /\ NumericScene
    /\ colorMode = "electron_affinity"
    /\ ProperRange(ranges[colorMode])
    /\ \E lo, hi \in TestVals :
          /\ lo < ranges[colorMode][1].n
          /\ hi > ranges[colorMode][2].n
          /\ interpolateColor(lo, ranges[colorMode][1], ranges[colorMode][2],
                              Hex222244, ColorHigh(colorMode))
             # interpolateColor(hi, ranges[colorMode][1], ranges[colorMode][2],
                                Hex222244, ColorHigh(colorMode))

\* a record has a value for a numeric property
HasValue(e, p) ==
    CASE p = "atomic_mass" -> TRUE
      [] p = "density" -> e.density # null
      [] p = "electronegativity" -> e.electronegativity_pauling # null
      [] p = "ionization" -> Len(e.ionization_energies) > 0
      [] p = "electron_affinity" -> e.electron_affinity # null

\* the value of a record that has one
ValueOf(e, p) ==
    CASE p = "atomic_mass" -> e.atomic_mass
      [] p = "density" -> e.density[1]
      [] p = "electronegativity" -> e.electronegativity_pauling[1]
      [] p = "ionization" -> e.ionization_energies[1]
      [] p = "electron_affinity" -> e.electron_affinity[1]

Loaded == {elements[i] : i \in 1..Len(elements)}

WithValue(p) == {e \in Loaded : HasValue(e, p)}

\* every present value of p lies within the range r
Encloses(r, p) ==
    \A e \in WithValue(p) :
        ~JsLess(Fin(ValueOf(e, p)), r[1]) /\ ~JsLess(r[2], Fin(ValueOf(e, p)))

\* both bounds of r are the value of some record that has one
Attained(r, p) ==
    /\ \E e \in WithValue(p) : Fin(ValueOf(e, p)) = r[1]
    /\ \E e \in WithValue(p) : Fin(ValueOf(e, p)) = r[2]

\* C7 (as claimed): once records are loaded, every numeric property has a
\* range that encloses the present values and whose two bounds are
\* attained by records that have a value.
C7_RangeAttained ==
    (fetchState = "fulfilled" /\ Len(elements) > 0) =>
        \A p \in NumericModes :
            p \in DOMAIN ranges /\ Encloses(ranges[p], p) /\ Attained(ranges[p], p)

\* C7 (amended): once records are loaded, a property some record has a
\* value for gets a range that encloses the present values and whose
\* bounds are attained by such records, whatever the records without a
\* value hold; a property no record has a value for gets the range
\* (Infinity, -Infinity); a document without records gives no ranges.
C7_RangeOverPresent ==
    fetchState = "fulfilled" =>
        IF Len(elements) = 0 THEN DOMAIN ranges = {}
        ELSE \A p \in NumericModes :
                /\ p \in DOMAIN ranges
                /\ IF WithValue(p) = {}
                   THEN ranges[p] = <<Infinity, NegInfinity>>
                   ELSE Encloses(ranges[p], p) /\ Attained(ranges[p], p)

\* records with and without a density, several with one, and no record
\* with an electron affinity
C7_Witness ==
    /\ fetchState = "fulfilled"
    /\ Cardinality(WithValue("density")) >= 2
    /\ Loaded \ WithValue("density") # {}
    /\ WithValue("electron_affinity") = {}

\* C8: once the fetch has stored the elements, no event changes the
\* elements or the ranges derived from them.
C8_ElementsImmutable ==
    [][fetchState = "fulfilled" => (elements' = elements /\ ranges' = ranges)]_vars

\* loaded elements after a click, a colour-mode selection and a resize
C8_Witness ==
    /\ fetchState = "fulfilled"
    /\ Len(elements) = MaxElements
    /\ selectedElementId # null
    /\ colorMode = "density"
    /\ isMobile

\* C9: after the fetch has failed it is never issued again: the promise
\* stays rejected, the element set stays empty and the error stays set.
C9_NoRetry ==
    /\ [](fetchState = "rejected" => (elements = << >> /\ error # null /\ ~loading))
    /\ [][fetchState = "rejected"
            => (fetchState' = "rejected" /\ elements' = elements /\ error' = error)]_vars

\* a failed load after which the colour mode was changed through the dropdown
C9_Witness ==
    /\ fetchState = "rejected"
    /\ error # null
    /\ elements = << >>
    /\ colorMode = "phase"

\* C10: at most one rendered block is selected, at most one is hovered and
\* at most one is active.
C10_AtMostOneActive ==
    /\ Cardinality({e \in RenderedBlocks : isSelected(e)}) <= 1
    /\ Cardinality({e \in RenderedBlocks : isHovered(e)}) <= 1
    /\ Cardinality({e \in RenderedBlocks : isEffectivelyActive(e)}) <= 1

\* several blocks rendered, exactly one of them active through hover
C10_Witness ==
    /\ Cardinality(RenderedBlocks) = MaxElements
    /\ hoveredElementId # null
    /\ Cardinality({e \in RenderedBlocks : isEffectivelyActive(e)}) = 1

\* a factor is a number in [0, 1]
InUnitInterval(t) == t.k = "fin" /\ 0 <= t.n /\ t.n <= t.d

\* the factor interpolateColor computes for a rendered block in the active mode
BlockFactor(e) ==
    InterpolationFactor(PropertyValue(e, colorMode),
                        ranges[colorMode][1], ranges[colorMode][2])

\* C11 (as claimed): for every block coloured in a numeric mode, also when
\* the range is degenerate (min = max) or comes from no record at all, the
\* interpolation factor is a number in [0, 1].
C11_FactorInUnitInterval ==
    NumericScene => \A e \in RenderedBlocks : InUnitInterval(BlockFactor(e))

\* the loaded record with atomic number n
ElementNumbered(n) == CHOOSE e \in Loaded : e.number = n

\* C12: the details card shows the hovered element if there is one,
\* otherwise the selected element if there is one, and is absent exactly
\* when neither is set; so while an element is selected the card shows it.
C12_CardFollowsHoverThenSelection ==
    /\ hoveredElementId # null
          => displayElement = <<ElementNumbered(hoveredElementId[1])>>
    /\ (hoveredElementId = null /\ selectedElementId # null)
          => displayElement = <<ElementNumbered(selectedElementId[1])>>
    /\ ("element-details" \in RenderedView)
          <=> (hoveredElementId # null \/ selectedElementId # null)
    /\ selectedElementId # null
          => displayElement = <<ElementNumbered(selectedElementId[1])>>

\* a fine-pointer device with the last element selected and shown while
\* other blocks are there to move the pointer over
C12_Witness ==
    /\ hasMouse
    /\ Len(elements) = MaxElements
    /\ selectedElementId = <<MaxElements>>
    /\ displayElement = <<elements[MaxElements]>>
    /\ "element-details" \in RenderedView

\* C13: a click on the selected block clears the selection, a click on
\* another block while one is selected moves the selection to the clicked
\* one, and after either click nothing is hovered.
C13_ClickToggles ==
    [][\A i \in 1..MaxElements :
        (ElementOnClick(i) /\ selectedElementId # null)
            => /\ isSelected(elements[i]) => selectedElementId' = null
               /\ ~isSelected(elements[i])
                     => selectedElementId' = <<elements[i].number>>
               /\ hoveredElementId' = null]_vars

\* a fine-pointer device with the first of several elements selected, so
\* that the next click either deselects it or moves the selection
C13_Witness ==
    /\ hasMouse
    /\ Len(elements) >= 2
    /\ selectedElementId = <<1>>
    /\ hoveredElementId = null

\* C14: from any state, resetScene leaves no selection, no hover and the
\* colour mode 'category', and does not change the elements, the ranges
\* or the mobile/desktop classification.
C14_ResetRestoresInitialUi ==
    [][resetScene
        => /\ selectedElementId' = null
           /\ hoveredElementId' = null
           /\ colorMode' = "category"
           /\ elements' = elements
           /\ ranges' = ranges
           /\ isMobile' = isMobile]_vars

\* the state a reset leaves on a mobile viewport with every element loaded
C14_Witness ==
    /\ fetchState = "fulfilled"
    /\ Len(elements) = MaxElements
    /\ isMobile
    /\ selectedElementId = null
    /\ hoveredElementId = null
    /\ colorMode = "category"
    /\ ~showDropdown

\* C15: when the fetch promise settles, loading eventually becomes false
\* and then never becomes true again; while loading is true only the
\* loading screen is rendered and no element or control event changes the
\* hover, the selection, the colour mode or the dropdown.
C15_LoadingEnds ==
    /\ <>(~loading)
    /\ [][~loading => ~loading']_vars
    /\ [](loading => RenderedView = {"loading-screen"})
    /\ [][loading => UNCHANGED <<hoveredElementId, selectedElementId,
                                 colorMode, showDropdown>>]_vars

\* loading has ended through a rejected fetch and the dropdown was opened since
C15_Witness ==
    /\ ~loading
    /\ fetchState = "rejected"
    /\ showDropdown

\* C16: whenever at least one element block is rendered, ranges holds a
\* [min, max] pair for each of the five numeric properties, whatever
\* colour mode is active and however the load ended.
C16_RangesDefinedForBlocks ==
    RenderedBlocks # {} =>
        \A p \in {"atomic_mass", "density", "electronegativity", "ionization",
                  "electron_affinity"} :
            p \in DOMAIN ranges /\ Len(ranges[p]) = 2

\* blocks rendered in the electron_affinity mode with one of them hovered
C16_Witness ==
    /\ RenderedBlocks # {}
    /\ colorMode = "electron_affinity"
    /\ hoveredElementId # null
    /\ colorMode \in DOMAIN ranges

\* the rendered blocks without a value for the active numeric mode
BlocksMissing == {e \in RenderedBlocks : ~HasValue(e, colorMode)}

\* the factor 0, the low end of the gradient
IsZero(t) == t.k = "fin" /\ t.n = 0

\* a factor strictly between 0 and 1
StrictlyInside(t) == t.k = "fin" /\ 0 < t.n /\ t.n < t.d

\* C17: in a numeric mode a block without a value is coloured exactly as
\* the value 0 is (and as any block whose value is 0): its factor is the
\* clamped (0 - min) / (max - min), which is 0 only when min >= 0, is 0
\* for every range with 0 <= min < max, and is strictly between 0 and 1
\* when min < 0 < max.
C17_MissingColouredAsZero ==
    NumericScene =>
        \A e \in BlocksMissing :
            LET min == ranges[colorMode][1]
                max == ranges[colorMode][2]
                t == BlockFactor(e)
            IN  /\ numericColor(e, colorMode, ranges[colorMode])
                     = interpolateColor(0, min, max, Hex222244, ColorHigh(colorMode))
                /\ \A z \in RenderedBlocks :
                      (HasValue(z, colorMode) /\ ValueOf(z, colorMode) = 0)
                          => numericColor(e, colorMode, ranges[colorMode])
                               = numericColor(z, colorMode, ranges[colorMode])
                /\ t = InterpolationFactor(0, min, max)
                /\ IsZero(t) => ~JsLess(min, Fin(0))
                /\ (ProperRange(ranges[colorMode]) /\ ~JsLess(min, Fin(0)))
                      => IsZero(t)
                /\ (JsLess(min, Fin(0)) /\ JsLess(Fin(0), max)) => StrictlyInside(t)

\* the electron_affinity mode with min < 0 < max and a block without a value
C17_Witness ==
    /\ NumericScene
    /\ colorMode = "electron_affinity"
    /\ BlocksMissing # {}
    /\ JsLess(ranges[colorMode][1], Fin(0))
    /\ JsLess(Fin(0), ranges[colorMode][2])

\* C18: without a fine pointer (hasMouse false) nothing is ever hovered:
\* pointer-over and pointer-out leave hoveredElementId unchanged, so an
\* active block is always the selected one.
C18_NoHoverWithoutMouse ==
    /\ [](~hasMouse => hoveredElementId = null)
    /\ [](~hasMouse => \A e \in RenderedBlocks : isEffectivelyActive(e) => isSelected(e))
    /\ [][\A i \in 1..MaxElements :
            (~hasMouse /\ (ElementOnPointerOver(i) \/ ElementOnPointerOut(i)))
                => hoveredElementId' = hoveredElementId]_vars

\* a touch device with several blocks and nothing selected, where only
\* hasMouse keeps a pointer-over from hovering
C18_Witness ==
    /\ ~hasMouse
    /\ ~loading
    /\ Len(elements) >= 2
    /\ selectedElementId = null
    /\ hoveredElementId = null

\* C19: the property legend is rendered exactly when the active colour
\* mode is one of the five numeric modes of the dropdown, and never in
\* the four general modes.
C19_LegendIffNumericMode ==
    /\ ("property-legend" \in RenderedView) <=> (colorMode \in NumericModes)
    /\ colorMode \in GeneralModes => "property-legend" \notin RenderedView

\* the legend shown for the ionization mode while an element is selected
C19_Witness ==
    /\ colorMode = "ionization"
    /\ "property-legend" \in RenderedView
    /\ selectedElementId # null

====
